---- MODULE Spec2Model ----
(***************************************************************************)
(* Session orchestration and request classification of the manager graph:  *)
(* initializeGithubIssue, classifyMessage, startPlanner, createNewSession, *)
(* with the issue tracker and the run-execution service as collaborators.  *)
(***************************************************************************)
EXTENDS Naturals, Sequences, FiniteSets, TLC

\* ------------------------------------------------------------------ bounds
\* Passes one conversation goes through when its triggers follow one another.
MaxPasses == 3
\* Passes of one conversation when its triggers may overlap.
MaxRacePasses == 2
\* Human messages of one conversation.
MaxHuman == 3
\* Distinct task plans a ticket body may hold (0 stands for no plan).
MaxPlan == 2
\* External calls that fail during one run of the model.
MaxFaults == 1
\* External calls of the webhook handler that fail while it handles an event.
MaxWebhookFaults == 2
\* Passes of one conversation that may be in progress at the same time.
NumSlots == 2

Slots == 1..NumSlots

\* ------------------------------------------------------------- vocabulary
\* The closed route enumeration of the classifier's tool schema.
Routes ==
  {"no_op", "create_new_issue", "start_planner", "start_planner_for_followup",
   "update_planner", "update_programmer", "resume_and_update_planner"}

\* What the router model may send back: one of the routes, a route outside
\* the enumeration (the code casts the arguments, it does not validate
\* them), or a reply without any tool call.
ModelReplies == Routes \cup {"bogus_route", "no_tool_call"}

\* Status of a thread as the run-execution service reports it, named as the
\* specification names the session statuses; classifyMessage compares it with
\* "interrupted" only and hands it on to the prompt.
ThreadStatus == {"running", "interrupted", "completed", "errored"}

\* Status as classifyMessage sees it: a thread's status, or "not_started".
Status == ThreadStatus \cup {"not_started"}

\* ---------------------------------------------------------------- messages
NoKw ==
  [githubIssueId |-> 0, githubIssueCommentId |-> 0, isOriginalIssue |-> FALSE,
   isFollowup |-> FALSE, requestSource |-> "none"]

HumanMessage(id, content, kw) ==
  [type |-> "human", id |-> id, content |-> content, kw |-> kw]

AIMessage(id) ==
  [type |-> "ai", id |-> id, content |-> 0, kw |-> NoKw]

RemoveMessage(id) ==
  [type |-> "remove", id |-> id, content |-> 0, kw |-> NoKw]

isHumanMessage(m) == m.type = "human"

Humans(msgs) == SelectSeq(msgs, isHumanMessage)

\* state.messages.findLast(isHumanMessage): the index, 0 when there is none.
FindLastHuman(msgs) ==
  LET idx == {i \in DOMAIN msgs : isHumanMessage(msgs[i])}
  IN IF idx = {} THEN 0 ELSE CHOOSE i \in idx : \A j \in idx : j <= i

\* The messages channel of the conversation state: a retraction removes the
\* entry with that id, any other message is appended.
RECURSIVE ApplyMessages(_, _)
ApplyMessages(left, right) ==
  IF right = <<>> THEN left
  ELSE LET m == Head(right)
           kept == SelectSeq(left, LAMBDA x : x.id # m.id)
       IN ApplyMessages(IF m.type = "remove" THEN kept ELSE Append(kept, m),
                        Tail(right))

\* ------------------------------------------------------ conversation state
NoSession == [threadId |-> 0, runId |-> 0]

\* state.targetRepository ({owner, repo}); "none" when it is not set.
TheRepository == "owner/repo"

\* A ManagerGraphUpdate; 0 / NoSession / <<>> stand for an absent key.
NoUpdate ==
  [messages |-> <<>>, githubIssueId |-> 0, plannerSession |-> NoSession,
   taskPlan |-> 0, targetRepository |-> "none"]

ApplyUpdate(s, u) ==
  [messages |-> ApplyMessages(s.messages, u.messages),
   githubIssueId |-> IF u.githubIssueId # 0 THEN u.githubIssueId
                     ELSE s.githubIssueId,
   plannerSession |-> IF u.plannerSession # NoSession THEN u.plannerSession
                      ELSE s.plannerSession,
   programmerSession |-> s.programmerSession,
   taskPlan |-> IF u.taskPlan # 0 THEN u.taskPlan ELSE s.taskPlan,
   targetRepository |-> IF u.targetRepository # "none" THEN u.targetRepository
                        ELSE s.targetRepository]

\* The locals of classifyMessage that are read after the router model's
\* reply; `prompt` is the request to the model while it is outstanding, and
\* `issueBodyPlan` the plan found in the ticket body the pass read last
\* (initializeGithubIssue's `issue`, classifyMessage's `issuePlans`), and
\* `programmerFound` whether plannerThreadValues named a programmer session.
NoLocals ==
  [route |-> "none", plannerStatus |-> "not_started", githubIssueId |-> 0,
   issueBodyPlan |-> 0, programmerFound |-> FALSE,
   prompt |-> [sent |-> FALSE, plannerStatus |-> "not_started",
               programmerStatus |-> "not_started", taskPlan |-> 0,
               offered |-> {}],
   newMessages |-> <<>>, pending |-> {}, failed |-> FALSE]

\* A label event as the webhook route receives it.
NoEvent ==
  [parsed |-> TRUE, headers |-> TRUE, name |-> "none", keySet |-> TRUE,
   label |-> "missing", issue |-> TRUE, repository |-> TRUE,
   installation |-> FALSE, allowed |-> FALSE]

\* The webhook handler when no event is being handled: `pc` is the place
\* the handler is at, `response` what issueWebhookHandler answered,
\* `credentials` the installation credentials fetched, `posted` the comments
\* the handler posted on the ticket.
NoWebhook ==
  [event |-> NoEvent, pc |-> "none", response |-> "none", credentials |-> 0,
   threadId |-> 0, runId |-> 0, posted |-> <<>>, errorAttempts |-> 0,
   faults |-> 0]

\* The request the OAuth callback receives: the query parameters `error`,
\* `code`, `state` and `installation_id` ("none" when the parameter is
\* absent), `storedState` the value of the auth-state cookie ("none" when
\* the request carries no such cookie), and `configured` whether the client
\* id, the client secret and the redirect URI are all set.
NoRequest ==
  [error |-> "none", code |-> "none", state |-> "none",
   installationId |-> "none", storedState |-> "none", configured |-> FALSE]

\* The OAuth callback when no request is being handled: `pc` is the place
\* GET is at, `redirect` where it redirected to, `exchanged` whether the
\* authorization code was posted to the token endpoint, `cookies` the
\* cookies set on the response.
NoCallback ==
  [request |-> NoRequest, pc |-> "none", redirect |-> "none",
   exchanged |-> FALSE, cookies |-> {}]

VARIABLES
  conv,        \* the conversation state in the durable store
  localMode,   \* isLocalMode(config)
  concurrent,  \* whether triggers of this conversation may overlap
  pc,          \* per pass slot: the node the pass is at
  passNo,      \* per pass slot: the number of the pass it runs
  st,          \* per pass slot: the state snapshot the pass works on
  loc,         \* per pass slot: the locals of classifyMessage
  result,      \* per pass: "" while it runs, "ok" or the error it ended with
  issues,      \* tracker: the tickets, a ticket's number is its index
  comments,    \* tracker: the comments, a comment's id is its index
  runs,        \* run-execution service: the requests it accepted
  nextId,      \* source of fresh ids (uuidv4, message ids)
  faults,      \* external calls that failed so far
  passCount,   \* passes started so far
  wh,          \* the label webhook's handler: its event and its progress
  cb           \* the OAuth callback: its request and its progress

vars ==
  <<conv, localMode, concurrent, wh, cb, pc, passNo, st, loc, result, issues,
    comments, runs, nextId, faults, passCount>>

EmptyConv ==
  [messages |-> <<>>, githubIssueId |-> 0, plannerSession |-> NoSession,
   programmerSession |-> NoSession, taskPlan |-> 0,
   targetRepository |-> "none"]

\* The run input the label webhook submits for a labelled ticket: the state
\* of the conversation it creates.
WebhookRunInput(id, issueNumber) ==
  [EmptyConv EXCEPT
     !.messages =
        <<HumanMessage(id, issueNumber,
                       [NoKw EXCEPT !.isOriginalIssue = TRUE,
                                    !.githubIssueId = issueNumber,
                                    !.requestSource = "github_issue_webhook"])>>,
     !.githubIssueId = issueNumber,
     !.targetRepository = TheRepository]

\* A conversation starts empty (the first trigger brings the first message),
\* as the conversation of an existing ticket that holds the request, or with
\* the run input of the label webhook.
InitCommon ==
  /\ localMode \in BOOLEAN
  /\ \/ /\ conv = [EmptyConv EXCEPT !.targetRepository = TheRepository]
        /\ issues = <<>>
        /\ nextId = 0
     \/ /\ ~localMode
        /\ conv = [EmptyConv EXCEPT !.githubIssueId = 1,
                                     !.targetRepository = TheRepository]
        /\ issues = <<[by |-> "external", pass |-> 0]>>
        /\ nextId = 0
     \/ /\ ~localMode
        /\ conv = WebhookRunInput(1, 1)
        /\ issues = <<[by |-> "external", pass |-> 0]>>
        /\ nextId = 1
  /\ wh = NoWebhook
  /\ cb = NoCallback
  /\ pc = [p \in Slots |-> "idle"]
  /\ passNo = [p \in Slots |-> 0]
  /\ st = [p \in Slots |-> EmptyConv]
  /\ loc = [p \in Slots |-> NoLocals]
  /\ result = <<>>
  /\ comments = <<>>
  /\ runs = <<>>
  /\ faults = 0
  /\ passCount = 0

Init == InitCommon /\ concurrent = FALSE

InitRace == InitCommon /\ concurrent = TRUE

\* ----------------------------------------------------- engine: one pass
Free(p) == pc[p] \in {"idle", "END", "failed"}

\* A trigger may start a pass in slot p: triggers of one conversation follow
\* one another, unless the conversation's triggers may overlap.
MayStart(p) ==
  /\ Free(p)
  /\ passCount < (IF concurrent THEN MaxRacePasses ELSE MaxPasses)
  /\ concurrent \/ (p = 1 /\ \A q \in Slots : Free(q))

Begin(p, c) ==
  /\ conv' = c
  /\ st' = [st EXCEPT ![p] = c]
  /\ pc' = [pc EXCEPT ![p] = "initialize-github-issue"]
  /\ passNo' = [passNo EXCEPT ![p] = passCount + 1]
  /\ passCount' = passCount + 1
  /\ loc' = [loc EXCEPT ![p] = NoLocals]
  /\ result' = Append(result, "")

\* A user message arrives: the run input appends it, untagged, and the pass
\* starts at the graph's entry node.
NewRequest(p) ==
  /\ MayStart(p)
  /\ Len(Humans(conv.messages)) < MaxHuman
  /\ LET m == HumanMessage(nextId + 1, nextId + 1,
                           [NoKw EXCEPT !.requestSource = "open_swe"])
     IN Begin(p, [conv EXCEPT !.messages = Append(@, m)])
  /\ nextId' = nextId + 1
  /\ UNCHANGED <<localMode, concurrent, wh, cb, issues, comments, runs, faults>>

\* The same trigger is delivered again (a retry), or a trigger without a
\* message starts the graph: the pass runs on the stored state as it is.
Redrive(p) ==
  /\ MayStart(p)
  /\ Begin(p, conv)
  /\ UNCHANGED <<localMode, concurrent, wh, cb, issues, comments, runs, nextId,
                 faults>>

\* The outcomes of the external calls of one step: all succeed ("none"), or
\* the named one fails.
Outcomes(calls) ==
  IF faults < MaxFaults THEN calls \cup {"none"} ELSE {"none"}

Fault(f) == faults' = IF f = "none" THEN faults ELSE faults + 1

\* A node returns `u` and routes to `goto`: the engine merges the update
\* into the pass's state and stores it.
Return(p, u, goto) ==
  /\ result' = IF goto = "END" THEN [result EXCEPT ![passNo[p]] = "ok"]
               ELSE result
  /\ conv' = ApplyUpdate(conv, u)
  /\ st' = [st EXCEPT ![p] = ApplyUpdate(@, u)]
  /\ pc' = [pc EXCEPT ![p] = goto]

\* A node throws: the pass ends, nothing of the node's update is stored.
Throw(p, e) ==
  /\ pc' = [pc EXCEPT ![p] = "failed"]
  /\ result' = [result EXCEPT ![passNo[p]] = e]
  /\ UNCHANGED <<conv, st>>

\* -------------------------------------------------- initializeGithubIssue
\* Faulty variant: the plan already in the state wins over the ticket's.
PlanFromIssue_stateFirst(statePlan, bodyPlan) ==
  IF statePlan # 0 THEN statePlan ELSE bodyPlan

\* extractTasksFromIssueContent(issue.body) over the state's plan: the plan
\* of the ticket body when it holds one, else the plan already in the state.
PlanFromIssue(statePlan, bodyPlan) ==
  IF bodyPlan # 0 THEN bodyPlan ELSE statePlan

\* Faulty variant: the message built from the ticket carries no ticket id.
IssueMessage_untagged(id, issueId) ==
  HumanMessage(id, issueId, [NoKw EXCEPT !.isOriginalIssue = TRUE])

\* The human message initializeGithubIssue builds from the ticket.
IssueMessage(id, issueId) ==
  HumanMessage(id, issueId,
               [NoKw EXCEPT !.githubIssueId = issueId,
                            !.isOriginalIssue = TRUE])

\* Faulty variant: a ticket that is not returned goes unnoticed.
IssueNotFound_ignored(found) == FALSE

\* if (!issue)
IssueNotFound(found) == ~found

initializeGithubIssue(p) ==
  /\ pc[p] = "initialize-github-issue"
  /\ \E f \in Outcomes({"getIssue"}), bodyPlan \in 0..MaxPlan :
       LET s == st[p]
           hasHuman == FindLastHuman(s.messages) # 0
           found == f = "none"
           called == ~localMode /\ s.githubIssueId # 0
       IN /\ (~called => f = "none" /\ bodyPlan = 0)
          /\ Fault(f)
          /\ IF localMode
             THEN /\ Return(p, NoUpdate, "classify-message")
                  /\ UNCHANGED nextId
             ELSE IF hasHuman
             THEN IF s.githubIssueId # 0 /\ IssueNotFound(found)
                  THEN Throw(p, "Issue not found") /\ UNCHANGED nextId
                  ELSE /\ Return(p,
                           [NoUpdate EXCEPT !.taskPlan =
                              IF s.githubIssueId # 0
                              THEN PlanFromIssue(s.taskPlan, bodyPlan)
                              ELSE s.taskPlan],
                           "classify-message")
                       /\ UNCHANGED nextId
             ELSE IF s.githubIssueId = 0 \/ IssueNotFound(found)
                  THEN /\ Throw(p, IF s.githubIssueId = 0
                                   THEN "GitHub issue ID not provided"
                                   ELSE "Issue not found")
                       /\ UNCHANGED nextId
                  ELSE /\ Return(p,
                           [NoUpdate EXCEPT
                              !.messages =
                                 <<IssueMessage(nextId + 1, s.githubIssueId)>>,
                              !.taskPlan = PlanFromIssue(s.taskPlan, bodyPlan)],
                           "classify-message")
                       /\ nextId' = nextId + 1
          /\ loc' = [loc EXCEPT ![p] = [@ EXCEPT !.issueBodyPlan = bodyPlan]]
  /\ UNCHANGED <<localMode, concurrent, wh, cb, passNo, issues, comments, runs,
                 passCount>>

\* -------------------------------------------------------- classifyMessage
\* The route set createClassificationPromptAndToolSchema offers the model
\* for the current session statuses.
OfferedRoutes(plannerStatus, programmerStatus) ==
  {"no_op", "create_new_issue", "start_planner_for_followup",
   "update_planner", "update_programmer"}
    \cup (IF plannerStatus = "not_started" THEN {"start_planner"} ELSE {})
    \cup (IF plannerStatus = "interrupted"
          THEN {"resume_and_update_planner"} ELSE {})

\* Faulty variant: a planner thread that was not fetched counts as
\* interrupted.
PlannerStatusOf_interrupted(s, fetched) ==
  IF ~localMode /\ s.plannerSession.threadId # 0 THEN fetched
  ELSE "interrupted"

\* plannerThread?.status ?? "not_started": the planner thread is fetched only
\* outside local mode and only when the state has a planner thread id.
PlannerStatusOf(s, fetched) ==
  IF ~localMode /\ s.plannerSession.threadId # 0 THEN fetched
  ELSE "not_started"

\* Faulty variant: without a programmer session in the planner thread, the
\* conversation's own programmerSession counts as a running programmer.
ProgrammerStatusOf_own(s, prog) ==
  IF ~localMode /\ s.plannerSession.threadId # 0 /\ prog # "none" THEN prog
  ELSE IF s.programmerSession # NoSession THEN "running"
  ELSE "not_started"

\* programmerThread?.status ?? "not_started": the programmer thread is found
\* through the planner thread's values only; `prog` is "none" when those
\* values record no programmer session.
ProgrammerStatusOf(s, prog) ==
  IF ~localMode /\ s.plannerSession.threadId # 0 /\ prog # "none" THEN prog
  ELSE "not_started"

\* issuePlans?.taskPlan ?? state.taskPlan
ClassifyTaskPlan(s, bodyPlan) ==
  IF s.githubIssueId # 0 /\ bodyPlan # 0 THEN bodyPlan ELSE s.taskPlan

\* Faulty variant: the copy carries no ticket id.
OriginalIssueCopy_untagged(m, issueId) ==
  HumanMessage(m.id, m.content, [NoKw EXCEPT !.isOriginalIssue = TRUE])

\* The copy that replaces the user message once the ticket is created.
OriginalIssueCopy(m, issueId) ==
  HumanMessage(m.id, m.content,
               [NoKw EXCEPT !.githubIssueId = issueId,
                            !.isOriginalIssue = TRUE])

\* Faulty variant: the copy does not record the comment created for it.
CommentCopy_noComment(m, issueId, commentId, route) ==
  HumanMessage(m.id, m.content,
               [NoKw EXCEPT !.githubIssueId = issueId,
                            !.isFollowup =
                               (route = "start_planner_for_followup")])

\* The copy that replaces a message once its ticket comment is created.
CommentCopy(m, issueId, commentId, route) ==
  HumanMessage(m.id, m.content,
               [NoKw EXCEPT !.githubIssueId = issueId,
                            !.githubIssueCommentId = commentId,
                            !.isFollowup =
                               (route = "start_planner_for_followup")])

\* Faulty variant: the filter on githubIssueId is dropped.
messagesNotInIssue_unfiltered(msgs) == Humans(msgs)

\* Human messages whose additional_kwargs hold no githubIssueId.
messagesNotInIssue(msgs) ==
  SelectSeq(Humans(msgs), LAMBDA m : m.kw.githubIssueId = 0)

\* Faulty variant: the ticket is created whether or not the state has one.
NeedsIssue_always(s) == TRUE

\* Whether classifyMessage creates the ticket: `if (!githubIssueId)`.
NeedsIssue(s) == s.githubIssueId = 0

\* Whether classifyMessage takes the comment-mirroring branch.
MirrorBranch(s) ==
  s.githubIssueId # 0 /\ Len(Humans(s.messages)) > 1

\* Where the last lines of classifyMessage route to; "throw" for a route that
\* none of them handles.
FinalGoto(route) ==
  IF route \in {"update_programmer", "update_planner",
                "resume_and_update_planner"}
  THEN "END"
  ELSE IF route \in {"start_planner", "start_planner_for_followup"}
  THEN "start-planner"
  ELSE "throw"

\* Where the local-mode branch routes to.
LocalGoto(route) ==
  IF route \in {"start_planner", "start_planner_for_followup"}
  THEN "start-planner"
  ELSE "throw"

\* The request sent to the router model: the statuses, the plan and the
\* route set the prompt and the tool schema are built from.
NoPrompt ==
  [sent |-> FALSE, plannerStatus |-> "not_started",
   programmerStatus |-> "not_started", taskPlan |-> 0, offered |-> {}]

\* Faulty variant: the two statuses are passed in each other's place.
Prompt_swapped(plannerStatus, programmerStatus, taskPlan) ==
  [sent |-> TRUE, plannerStatus |-> plannerStatus,
   programmerStatus |-> programmerStatus, taskPlan |-> taskPlan,
   offered |-> OfferedRoutes(programmerStatus, plannerStatus)]

Prompt(plannerStatus, programmerStatus, taskPlan) ==
  [sent |-> TRUE, plannerStatus |-> plannerStatus,
   programmerStatus |-> programmerStatus, taskPlan |-> taskPlan,
   offered |-> OfferedRoutes(plannerStatus, programmerStatus)]

\* Faulty variant: the prompt is built and sent without looking for a human
\* message first.
classifyMessage_unguarded(p) ==
  /\ pc[p] = "classify-message"
  /\ pc' = [pc EXCEPT ![p] = "router-model"]
  /\ loc' = [loc EXCEPT ![p] = [@ EXCEPT
               !.plannerStatus = "not_started",
               !.githubIssueId = st[p].githubIssueId,
               !.prompt = Prompt("not_started", "not_started",
                                 st[p].taskPlan)]]
  /\ UNCHANGED <<conv, st, result, localMode, concurrent, wh, cb, passNo, issues,
                 comments, runs, nextId, faults, passCount>>

\* classifyMessage up to the call of the router model: find the user
\* message, fetch the thread statuses and the ticket's plan, build the prompt.
classifyMessage(p) ==
  /\ pc[p] = "classify-message"
  /\ \E fetched \in ThreadStatus, prog \in ThreadStatus \cup {"none"},
        bodyPlan \in 0..MaxPlan :
       LET s == st[p]
           last == FindLastHuman(s.messages)
           threadKnown == ~localMode /\ last # 0
                          /\ s.plannerSession.threadId # 0
           plannerStatus == PlannerStatusOf(s, fetched)
           programmerStatus == ProgrammerStatusOf(s, prog)
       IN /\ (~threadKnown => fetched = "running" /\ prog = "none")
          /\ (last = 0 \/ s.githubIssueId = 0 => bodyPlan = 0)
          /\ IF last = 0
             THEN \* no human message: thrown before any external call
                  /\ Throw(p, "No human message found.")
                  /\ UNCHANGED loc
             ELSE /\ pc' = [pc EXCEPT ![p] = "router-model"]
                  /\ loc' = [loc EXCEPT ![p] = [@ EXCEPT
                               !.plannerStatus = plannerStatus,
                               !.githubIssueId = s.githubIssueId,
                               !.issueBodyPlan = bodyPlan,
                               !.programmerFound = (prog # "none"),
                               !.prompt =
                                  Prompt(plannerStatus, programmerStatus,
                                         ClassifyTaskPlan(s, bodyPlan))]]
                  /\ UNCHANGED <<conv, st, result>>
  /\ UNCHANGED <<localMode, concurrent, wh, cb, passNo, issues, comments, runs,
                 nextId, faults, passCount>>

\* Faulty variant: the no_op branch returns without the reply.
NoOpUpdate_silent(response) == NoUpdate

\* The update of the no_op branch: `messages: [response]`.
NoOpUpdate(response) == [NoUpdate EXCEPT !.messages = <<response>>]

\* classifyMessage from the router model's reply to the point where the
\* ticket comments are issued (or to its return, when it issues none).
classifyMessageRoute(p) ==
  /\ pc[p] = "router-model"
  /\ \E reply \in ModelReplies, f \in Outcomes({"createIssue"}) :
       LET s == st[p]
           last == FindLastHuman(s.messages)
           userMessage == s.messages[last]
           response == AIMessage(nextId + 1)
           classified ==
             [loc[p] EXCEPT !.route = reply, !.prompt = NoPrompt,
                            !.issueBodyPlan = 0,
                            !.programmerFound = FALSE,
                            !.newMessages = <<response>>]
           reply1 == [NoUpdate EXCEPT !.messages = <<response>>]
           newIssueId == Len(issues) + 1
           tagged ==
             <<response, RemoveMessage(userMessage.id),
               OriginalIssueCopy(userMessage, newIssueId)>>
           creates == /\ ~localMode /\ NeedsIssue(s)
                      /\ reply \notin {"no_tool_call", "no_op",
                                        "create_new_issue"}
       IN /\ (~creates => f = "none")
          /\ Fault(f)
          /\ IF reply = "no_tool_call"
             THEN /\ Throw(p, "No tool call found.")
                  /\ loc' = [loc EXCEPT ![p] = [classified EXCEPT
                                                  !.newMessages = <<>>]]
                  /\ UNCHANGED <<issues, nextId>>
             ELSE IF reply = "no_op"
             THEN /\ Return(p, NoOpUpdate(response), "END")
                  /\ loc' = [loc EXCEPT ![p] = classified]
                  /\ nextId' = nextId + 1
                  /\ UNCHANGED issues
             ELSE IF reply = "create_new_issue"
             THEN /\ Return(p, reply1, "create-new-session")
                  /\ loc' = [loc EXCEPT ![p] = classified]
                  /\ nextId' = nextId + 1
                  /\ UNCHANGED issues
             ELSE IF localMode
             THEN /\ IF LocalGoto(reply) = "throw"
                     THEN Throw(p, "Unsupported route for local mode")
                     ELSE Return(p, reply1, LocalGoto(reply))
                  /\ loc' = [loc EXCEPT ![p] = classified]
                  /\ nextId' = nextId + 1
                  /\ UNCHANGED issues
             ELSE IF NeedsIssue(s)
             THEN IF f = "createIssue"
                  THEN /\ Throw(p, "Failed to create issue.")
                       /\ loc' = [loc EXCEPT ![p] = classified]
                       /\ UNCHANGED <<issues, nextId>>
                  ELSE /\ issues' = Append(issues, [by |-> "classifyMessage",
                                                    pass |-> passNo[p]])
                       /\ loc' = [loc EXCEPT ![p] = [classified EXCEPT
                                    !.githubIssueId = newIssueId,
                                    !.newMessages = tagged]]
                       /\ nextId' = nextId + 1
                       /\ IF FinalGoto(reply) = "throw"
                          THEN Throw(p, "Invalid route")
                          ELSE Return(p,
                                 [NoUpdate EXCEPT !.messages = tagged,
                                                  !.githubIssueId = newIssueId],
                                 FinalGoto(reply))
             ELSE IF MirrorBranch(s)
             THEN /\ pc' = [pc EXCEPT ![p] = "mirroring"]
                  /\ loc' = [loc EXCEPT ![p] = [classified EXCEPT !.pending =
                               {messagesNotInIssue(s.messages)[i].id :
                                  i \in DOMAIN messagesNotInIssue(s.messages)}]]
                  /\ nextId' = nextId + 1
                  /\ UNCHANGED <<conv, st, result, issues>>
             ELSE /\ IF FinalGoto(reply) = "throw"
                     THEN Throw(p, "Invalid route")
                     ELSE Return(p,
                            [NoUpdate EXCEPT !.messages = <<response>>,
                                             !.githubIssueId = s.githubIssueId],
                            FinalGoto(reply))
                  /\ loc' = [loc EXCEPT ![p] = classified]
                  /\ nextId' = nextId + 1
                  /\ UNCHANGED issues
  /\ UNCHANGED <<localMode, concurrent, wh, cb, passNo, comments, runs, passCount>>

\* The message of the pass's snapshot that has the given id.
MessageById(msgs, id) ==
  msgs[CHOOSE i \in DOMAIN msgs : msgs[i].id = id]

\* One of the concurrently issued createIssueComment calls settles: the
\* comment is created and the tagged copy is pushed, or the call fails.
\* Promise.all leaves the calls already issued running; the pass is held
\* here until each of them has settled.
createIssueComment(p, id) ==
  /\ pc[p] = "mirroring"
  /\ id \in loc[p].pending
  /\ \E f \in Outcomes({"createIssueComment"}) :
       LET l == loc[p]
           ok == f = "none"
           message == MessageById(st[p].messages, id)
           commentId == Len(comments) + 1
       IN /\ Fault(f)
          /\ IF ok
             THEN /\ comments' = Append(comments,
                                   [issue |-> l.githubIssueId, msg |-> id,
                                    pass |-> passNo[p]])
                  /\ loc' = [loc EXCEPT ![p] = [l EXCEPT
                               !.pending = @ \ {id},
                               !.newMessages = @ \o
                                  <<RemoveMessage(id),
                                    CommentCopy(message, l.githubIssueId,
                                                commentId, l.route)>>]]
             ELSE /\ loc' = [loc EXCEPT ![p] = [l EXCEPT
                               !.pending = @ \ {id}, !.failed = TRUE]]
                  /\ UNCHANGED comments
  /\ UNCHANGED <<conv, localMode, concurrent, wh, cb, pc, passNo, st, result, issues,
                 runs, nextId, passCount>>

\* Faulty variant: the planner is resumed whatever its status.
ShouldResume_always(plannerStatus) == TRUE

\* Whether the mirroring branch resumes the planner.
ShouldResume(plannerStatus) ==
  plannerStatus = "interrupted"

\* Where the mirroring branch routes to.
MirrorGoto(route) ==
  IF route = "start_planner_for_followup" THEN "start-planner" ELSE "END"

\* The state a run is submitted with (its input, or its command's update);
\* 0 / <<>> / "none" stand for an absent key.
NoInput ==
  [githubIssueId |-> 0, taskPlan |-> 0, followup |-> 0, messages |-> <<>>,
   targetRepository |-> "none", autoAcceptPlan |-> FALSE]

\* config.configurable of a run as far as it selects the models.
NoConfig == [plannerModelName |-> "default", programmerModelName |-> "default"]

\* A request the run-execution service accepted; its run id is its index.
Run(threadId, graphId, kind, goto, input, n) ==
  [threadId |-> threadId, graphId |-> graphId, kind |-> kind, goto |-> goto,
   input |-> input, config |-> NoConfig, pass |-> n]

\* Faulty variant: the session pointer keeps the run it had.
ResumedSession_stale(s, newPlannerId) ==
  [threadId |-> s.plannerSession.threadId, runId |-> s.plannerSession.runId]

\* The plannerSession key of the mirroring branch's update.
ResumedSession(s, newPlannerId) ==
  [threadId |-> s.plannerSession.threadId, runId |-> newPlannerId]

\* classifyMessage after Promise.all: resume an interrupted planner, route.
classifyMessageJoin(p) ==
  /\ pc[p] = "mirroring"
  /\ loc[p].pending = {}
  /\ \E f \in Outcomes({"runs.create"}) :
       LET l == loc[p]
           s == st[p]
           newPlannerId == Len(runs) + 1
           resumes == /\ ~l.failed /\ ShouldResume(l.plannerStatus)
                      /\ s.plannerSession.threadId # 0 /\ ~localMode
       IN /\ (~resumes => f = "none")
          /\ Fault(f)
          /\ IF l.failed
             THEN /\ Throw(p, "Failed to create issue comment")
                  /\ UNCHANGED runs
             ELSE IF ShouldResume(l.plannerStatus)
             THEN IF s.plannerSession.threadId = 0
                  THEN /\ Throw(p, "No planner session found.")
                       /\ UNCHANGED runs
                  ELSE IF localMode
                  THEN /\ Throw(p, "LangGraph client not initialized")
                       /\ UNCHANGED runs
                  ELSE IF f = "runs.create"
                  THEN /\ Throw(p, "runs.create failed")
                       /\ UNCHANGED runs
                  ELSE /\ runs' = Append(runs,
                                   Run(s.plannerSession.threadId, "planner",
                                       "resume", "", NoInput, passNo[p]))
                       /\ Return(p,
                            [NoUpdate EXCEPT
                               !.messages = l.newMessages,
                               !.plannerSession =
                                  ResumedSession(s, newPlannerId)],
                            MirrorGoto(l.route))
             ELSE /\ Return(p, [NoUpdate EXCEPT !.messages = l.newMessages],
                            MirrorGoto(l.route))
                  /\ UNCHANGED runs
  /\ UNCHANGED <<localMode, concurrent, wh, cb, passNo, loc, issues, comments, nextId,
                 passCount>>

\* ------------------------------------------------------------ startPlanner
\* Faulty variant: a new thread id is generated on every start.
PlannerThreadId_fresh(s, fresh) == fresh

\* state.plannerSession?.threadId ?? uuidv4()
PlannerThreadId(s, fresh) ==
  IF s.plannerSession.threadId # 0 THEN s.plannerSession.threadId ELSE fresh

\* getRecentUserRequest(state.messages): the id of the most recent human
\* message marked as a followup (of the most recent human message in local
\* mode), 0 when there is none.
RecentUserRequest(msgs) ==
  LET idx == {i \in DOMAIN msgs :
                /\ isHumanMessage(msgs[i])
                /\ localMode \/ msgs[i].kw.isFollowup}
  IN IF idx = {} THEN 0
     ELSE msgs[CHOOSE i \in idx : \A j \in idx : j <= i].id

\* Faulty variant: the last human message is always sent along.
PlannerRunInput_always(s) ==
  [NoInput EXCEPT !.githubIssueId = s.githubIssueId,
                  !.taskPlan = s.taskPlan,
                  !.followup = IF FindLastHuman(s.messages) = 0 THEN 0
                               ELSE s.messages[FindLastHuman(s.messages)].id,
                  !.messages = IF FindLastHuman(s.messages) = 0 THEN <<>>
                               ELSE <<s.messages[FindLastHuman(s.messages)]>>,
                  !.targetRepository = s.targetRepository]

\* The input of the planner run.  The messages key is there when
\* getRecentUserRequest found a message, and always in local mode, where it
\* holds whatever was found (message 0 stands for undefined).
PlannerRunInput(s) ==
  LET followupMessage == RecentUserRequest(s.messages)
  IN [NoInput EXCEPT
        !.githubIssueId = s.githubIssueId,
        !.taskPlan = s.taskPlan,
        !.followup = followupMessage,
        !.messages =
           IF followupMessage # 0
           THEN <<MessageById(s.messages, followupMessage)>>
           ELSE IF localMode THEN <<HumanMessage(0, 0, NoKw)>> ELSE <<>>,
        !.targetRepository = s.targetRepository]

\* The update startPlanner returns.
StartedSession(threadId, runId) ==
  [threadId |-> threadId, runId |-> runId]

startPlanner(p) ==
  /\ pc[p] = "start-planner"
  /\ \E f \in Outcomes({"regenerateInstallationToken", "runs.create"}) :
       LET s == st[p]
           plannerThreadId == PlannerThreadId(s, nextId + 1)
           runId == Len(runs) + 1
       IN /\ (localMode => f # "regenerateInstallationToken")
          /\ Fault(f)
          /\ nextId' = IF s.plannerSession.threadId # 0 \/ f # "none"
                       THEN nextId ELSE nextId + 1
          /\ IF f = "regenerateInstallationToken"
             THEN /\ Throw(p, "regenerateInstallationToken failed")
                  /\ UNCHANGED runs
             ELSE IF f = "runs.create"
             THEN /\ Throw(p, "runs.create failed")
                  /\ UNCHANGED runs
             ELSE /\ runs' = Append(runs,
                              Run(plannerThreadId, "planner", "create", "",
                                  PlannerRunInput(s), passNo[p]))
                  /\ Return(p,
                       [NoUpdate EXCEPT !.plannerSession =
                          StartedSession(plannerThreadId, runId)],
                       "END")
  /\ UNCHANGED <<localMode, concurrent, wh, cb, passNo, loc, issues, comments,
                 passCount>>

\* -------------------------------------------------------- createNewSession
\* The human message the new session starts with: the request, tagged with
\* the new ticket.
NewSessionMessage(id, newIssueId) ==
  HumanMessage(id, newIssueId,
               [NoKw EXCEPT !.githubIssueId = newIssueId,
                            !.isOriginalIssue = TRUE])

\* Faulty variant: the new session's state names no repository.
NewSessionCommandUpdate_noRepo(s, newIssueId, humanId, aiId) ==
  [NoInput EXCEPT !.githubIssueId = newIssueId,
                  !.messages = <<NewSessionMessage(humanId, newIssueId),
                                 AIMessage(aiId)>>]

\* commandUpdate: the state the new session's run is submitted with.
NewSessionCommandUpdate(s, newIssueId, humanId, aiId) ==
  [NoInput EXCEPT !.githubIssueId = newIssueId,
                  !.targetRepository = s.targetRepository,
                  !.messages = <<NewSessionMessage(humanId, newIssueId),
                                 AIMessage(aiId)>>]

\* Faulty variant: the update handed to the new session is returned to the parent.
NewSessionUpdate_leaky(response, newIssueId) ==
  [NoUpdate EXCEPT !.messages = <<response>>, !.githubIssueId = newIssueId]

\* The update createNewSession returns to the parent conversation.
NewSessionUpdate(response, newIssueId) ==
  [NoUpdate EXCEPT !.messages = <<response>>]

createNewSession(p) ==
  /\ pc[p] = "create-new-session"
  /\ \E f \in Outcomes({"createIssue", "regenerateInstallationToken",
                         "runs.create"}) :
       LET s == st[p]
           newIssueId == Len(issues) + 1
           commandUpdate ==
             NewSessionCommandUpdate(s, newIssueId, nextId + 1, nextId + 2)
           newManagerThreadId == nextId + 3
           responseMessage == AIMessage(nextId + 4)
       IN /\ (localMode => f # "regenerateInstallationToken")
          /\ Fault(f)
          /\ IF f = "createIssue"
             THEN /\ Throw(p, "Failed to create new issue")
                  /\ UNCHANGED <<issues, runs, nextId>>
             ELSE /\ issues' = Append(issues, [by |-> "createNewSession",
                                               pass |-> passNo[p]])
                  /\ IF f = "regenerateInstallationToken"
                     THEN /\ Throw(p, "regenerateInstallationToken failed")
                          /\ UNCHANGED <<runs, nextId>>
                     ELSE IF f = "runs.create"
                     THEN /\ Throw(p, "runs.create failed")
                          /\ UNCHANGED <<runs, nextId>>
                     ELSE /\ runs' = Append(runs,
                                      Run(newManagerThreadId, "manager",
                                          "create", "start-planner",
                                          commandUpdate, passNo[p]))
                          /\ nextId' = nextId + 4
                          /\ Return(p,
                               NewSessionUpdate(responseMessage, newIssueId),
                               "END")
  /\ UNCHANGED <<localMode, concurrent, wh, cb, passNo, loc, comments, passCount>>

\* ------------------------------------------------------ label webhook
\* The labels that trigger a run: getOpenSWELabel(),
\* getOpenSWEAutoAcceptLabel(), getOpenSWEMaxLabel(),
\* getOpenSWEMaxAutoAcceptLabel().
validOpenSWELabels ==
  {"standard", "standard-auto-accept", "max", "max-auto-accept"}

\* payload.label?.name: one of the labels above, another label, or none.
EventLabels == validOpenSWELabels \cup {"other", "missing"}

\* The events the webhook route may receive: the body parses or not, the
\* delivery headers are there or not, the event is issues.labeled or another
\* one, SECRETS_ENCRYPTION_KEY is set or not, and the payload has or lacks
\* its issue, its repository, its installation and an allowed sender.
Events ==
  [parsed : BOOLEAN, headers : BOOLEAN, name : {"issues.labeled", "other"},
   keySet : BOOLEAN, label : EventLabels, issue : BOOLEAN,
   repository : BOOLEAN, installation : BOOLEAN, allowed : BOOLEAN]

\* Faulty variant: any label that has a name passes.
isValidLabel_named(label) == label # "missing"

\* payload.label?.name is set and is one of validOpenSWELabels.
isValidLabel(label) == label # "missing" /\ label \in validOpenSWELabels

isAutoAcceptLabel(label) ==
  label = "standard-auto-accept" \/ label = "max-auto-accept"

\* Faulty variant: every label other than the standard one escalates.
isMaxLabel_broad(label) == label # "standard"

isMaxLabel(label) == label = "max" \/ label = "max-auto-accept"

\* config.configurable for a max label.
EscalatedConfig ==
  [plannerModelName |-> "anthropic:claude-opus-4-1",
   programmerModelName |-> "anthropic:claude-opus-4-1"]

WebhookConfig(label) == IF isMaxLabel(label) THEN EscalatedConfig ELSE NoConfig

\* Faulty variant: the comment names the run only.
createDevMetadataComment_runOnly(runId, threadId) ==
  [runId |-> runId, threadId |-> 0]

createDevMetadataComment(runId, threadId) ==
  [runId |-> runId, threadId |-> threadId]

\* Faulty variant: the run is submitted as a command that goes to
\* start-planner.
WebhookRun_command(threadId, label, messageId, issueNumber) ==
  [Run(threadId, "manager", "create", "start-planner",
       [NoInput EXCEPT
          !.messages = WebhookRunInput(messageId, issueNumber).messages,
          !.githubIssueId = issueNumber,
          !.targetRepository = TheRepository,
          !.autoAcceptPlan = isAutoAcceptLabel(label)], 0)
     EXCEPT !.config = WebhookConfig(label)]

\* The request the handler submits: runs.create(threadId, MANAGER_GRAPH_ID,
\* {input: runInput, config, ifNotExists: "create", ...}), no command.
WebhookRun(threadId, label, messageId, issueNumber) ==
  [Run(threadId, "manager", "create", "",
       [NoInput EXCEPT
          !.messages = WebhookRunInput(messageId, issueNumber).messages,
          !.githubIssueId = issueNumber,
          !.targetRepository = TheRepository,
          !.autoAcceptPlan = isAutoAcceptLabel(label)], 0)
     EXCEPT !.config = WebhookConfig(label)]

WebhookOutcomes(calls) ==
  IF wh.faults < MaxWebhookFaults THEN calls \cup {"none"} ELSE {"none"}

WebhookFault(f) == IF f = "none" THEN wh.faults ELSE wh.faults + 1

\* issueWebhookHandler's answer.
Respond(w, response) == [w EXCEPT !.pc = "done", !.response = response]

\* Faulty variant: a failure of the error comment is raised again.
Swallow_rethrow(w) == Respond(w, "Webhook processing failed")

\* catch (commentError): logged only; the handler returns normally.
Swallow(w) == Respond(w, "received")

\* issueWebhookHandler and the issues.labeled handler up to the first
\* external call: payload, headers, SECRETS_ENCRYPTION_KEY, label, the log
\* line that reads payload.issue.number, installation id.
issueWebhookHandler ==
  /\ wh.pc = "received"
  /\ LET e == wh.event
     IN wh' =
          IF ~e.parsed THEN Respond(wh, "Missing payload")
          ELSE IF ~e.headers THEN Respond(wh, "Missing webhook headers")
          ELSE IF e.name # "issues.labeled" THEN Respond(wh, "received")
          ELSE IF ~e.keySet THEN Respond(wh, "Webhook processing failed")
          ELSE IF ~isValidLabel(e.label) THEN Respond(wh, "received")
          ELSE IF ~e.issue THEN Respond(wh, "Webhook processing failed")
          ELSE IF ~e.installation THEN Respond(wh, "received")
          ELSE [wh EXCEPT !.pc = "auth"]
  /\ UNCHANGED <<conv, localMode, concurrent, cb, pc, passNo, st, loc, result,
                 issues, comments, runs, nextId, faults, passCount>>

\* Promise.all([getInstallationOctokit, getInstallationAccessToken]), then
\* issueData and the allow-list check.
getInstallationAuth ==
  /\ wh.pc = "auth"
  /\ \E f \in WebhookOutcomes({"getInstallationOctokit",
                               "getInstallationAccessToken"}) :
       LET e == wh.event
           w == [wh EXCEPT !.faults = WebhookFault(f)]
           got == [w EXCEPT !.credentials = @ + 1]
       IN wh' =
            IF f # "none" THEN [w EXCEPT !.pc = "catch"]
            ELSE IF ~e.repository THEN [got EXCEPT !.pc = "catch"]
            ELSE IF ~e.allowed THEN Respond(got, "received")
            ELSE [got EXCEPT !.pc = "create-run"]
  /\ UNCHANGED <<conv, localMode, concurrent, cb, pc, passNo, st, loc, result,
                 issues, comments, runs, nextId, faults, passCount>>

\* threadId and message id are generated, the run is submitted.
webhookCreateRun ==
  /\ wh.pc = "create-run"
  /\ \E f \in WebhookOutcomes({"runs.create"}) :
       LET w == [wh EXCEPT !.faults = WebhookFault(f)]
           threadId == nextId + 1
           messageId == nextId + 2
       IN /\ nextId' = nextId + 2
          /\ IF f # "none"
             THEN /\ wh' = [w EXCEPT !.pc = "catch"]
                  /\ UNCHANGED runs
             ELSE /\ runs' = Append(runs,
                                    WebhookRun(threadId, wh.event.label,
                                               messageId, 1))
                  /\ wh' = [w EXCEPT !.pc = "comment",
                                     !.threadId = threadId,
                                     !.runId = Len(runs) + 1]
  /\ UNCHANGED <<conv, localMode, concurrent, cb, pc, passNo, st, loc, result,
                 issues, comments, faults, passCount>>

\* The comment that tells the ticket a run was triggered.
webhookComment ==
  /\ wh.pc = "comment"
  /\ \E f \in WebhookOutcomes({"POST comments"}) :
       LET w == [wh EXCEPT !.faults = WebhookFault(f)]
       IN wh' =
            IF f # "none" THEN [w EXCEPT !.pc = "catch"]
            ELSE Respond([w EXCEPT !.posted =
                            Append(@, [kind |-> "triggered",
                                       body |-> createDevMetadataComment(
                                                  wh.runId, wh.threadId)])],
                         "received")
  /\ UNCHANGED <<conv, localMode, concurrent, cb, pc, passNo, st, loc, result,
                 issues, comments, runs, nextId, faults, passCount>>

\* The catch block: an error comment is tried when the payload names the
\* installation, the repository and the issue.
webhookCatch ==
  /\ wh.pc = "catch"
  /\ \E f \in WebhookOutcomes({"getInstallationOctokit"}) :
       LET e == wh.event
           tries == e.installation /\ e.repository /\ e.issue
           w == [wh EXCEPT !.faults = WebhookFault(f)]
       IN /\ (~tries => f = "none")
          /\ wh' =
               IF ~tries THEN Respond(w, "received")
               ELSE IF f # "none" THEN Swallow(w)
               ELSE [w EXCEPT !.pc = "error-comment",
                              !.credentials = @ + 1]
  /\ UNCHANGED <<conv, localMode, concurrent, cb, pc, passNo, st, loc, result,
                 issues, comments, runs, nextId, faults, passCount>>

webhookErrorComment ==
  /\ wh.pc = "error-comment"
  /\ \E f \in WebhookOutcomes({"POST comments"}) :
       LET w == [wh EXCEPT !.faults = WebhookFault(f),
                           !.errorAttempts = @ + 1]
       IN wh' =
            IF f # "none" THEN Swallow(w)
            ELSE Respond([w EXCEPT !.posted =
                            Append(@, [kind |-> "error",
                                       body |-> createDevMetadataComment(0,
                                                                         0)])],
                         "received")
  /\ UNCHANGED <<conv, localMode, concurrent, cb, pc, passNo, st, loc, result,
                 issues, comments, runs, nextId, faults, passCount>>

\* The node a run starts at: the graph's entry, or the node its command
\* names.
EntryNode(run) ==
  IF run.goto = "" THEN "initialize-github-issue" ELSE run.goto

\* The run-execution service starts the run the webhook submitted: the
\* conversation is created from the run's input.
webhookRunStart ==
  /\ passCount = 0
  /\ \E r \in DOMAIN runs :
       LET run == runs[r]
           c == WebhookRunInput(run.input.messages[1].id,
                                run.input.githubIssueId)
       IN /\ run.graphId = "manager" /\ run.pass = 0
          /\ conv' = c
          /\ st' = [st EXCEPT ![1] = c]
          /\ pc' = [pc EXCEPT ![1] = EntryNode(run)]
          /\ passNo' = [passNo EXCEPT ![1] = 1]
          /\ passCount' = 1
          /\ loc' = [loc EXCEPT ![1] = NoLocals]
          /\ result' = Append(result, "")
  /\ UNCHANGED <<localMode, concurrent, wh, cb, issues, comments, runs, nextId,
                 faults>>

\* ------------------------------------------------------------ specification
Next ==
  \E p \in Slots :
    \/ NewRequest(p)
    \/ Redrive(p)
    \/ initializeGithubIssue(p)
    \/ classifyMessage(p)
    \/ classifyMessageRoute(p)
    \/ \E id \in loc[p].pending : createIssueComment(p, id)
    \/ classifyMessageJoin(p)
    \/ startPlanner(p)
    \/ createNewSession(p)

\* Triggers of one conversation processed one after the other.
Spec == Init /\ [][Next]_vars

\* Triggers of one conversation that may overlap.
SpecRace == InitRace /\ [][Next]_vars

\* A label event arrives at the webhook route; the ticket it names exists,
\* no conversation does.  The run's input holds one human message, so its
\* pass never takes classifyMessage's comment-mirroring branch (MirrorBranch
\* needs more than one): the steps of that branch are not part of
\* NextWebhook.
InitWebhook ==
  /\ \E e \in Events : wh = [NoWebhook EXCEPT !.event = e, !.pc = "received"]
  /\ cb = NoCallback
  /\ localMode = FALSE
  /\ concurrent = FALSE
  /\ conv = EmptyConv
  /\ issues = <<[by |-> "external", pass |-> 0]>>
  /\ nextId = 0
  /\ pc = [p \in Slots |-> "idle"]
  /\ passNo = [p \in Slots |-> 0]
  /\ st = [p \in Slots |-> EmptyConv]
  /\ loc = [p \in Slots |-> NoLocals]
  /\ result = <<>>
  /\ comments = <<>>
  /\ runs = <<>>
  /\ faults = 0
  /\ passCount = 0

NextWebhook ==
  \/ issueWebhookHandler
  \/ getInstallationAuth
  \/ webhookCreateRun
  \/ webhookComment
  \/ webhookCatch
  \/ webhookErrorComment
  \/ webhookRunStart
  \/ \E p \in Slots :
       \/ initializeGithubIssue(p)
       \/ classifyMessage(p)
       \/ classifyMessageRoute(p)
       \/ startPlanner(p)
       \/ createNewSession(p)

\* A pass up to the request to the router model, for conversations that
\* record a planner session, a programmer session, both or neither.
InitStatus ==
  /\ localMode \in BOOLEAN
  /\ concurrent = FALSE
  /\ \E ticket \in 0..1, plan \in 0..MaxPlan,
        planner \in {NoSession, [threadId |-> 1, runId |-> 1]},
        programmer \in {NoSession, [threadId |-> 2, runId |-> 2]} :
       /\ (localMode => ticket = 0)
       /\ conv = [EmptyConv EXCEPT
                    !.messages =
                       <<HumanMessage(3, 3,
                           [NoKw EXCEPT !.githubIssueId = ticket,
                                        !.isOriginalIssue = (ticket # 0)])>>,
                    !.githubIssueId = ticket,
                    !.taskPlan = plan,
                    !.plannerSession = planner,
                    !.programmerSession = programmer,
                    !.targetRepository = TheRepository]
       /\ issues = IF ticket = 0 THEN <<>>
                   ELSE <<[by |-> "external", pass |-> 0]>>
  /\ nextId = 3
  /\ wh = NoWebhook
  /\ cb = NoCallback
  /\ pc = [p \in Slots |-> "idle"]
  /\ passNo = [p \in Slots |-> 0]
  /\ st = [p \in Slots |-> EmptyConv]
  /\ loc = [p \in Slots |-> NoLocals]
  /\ result = <<>>
  /\ comments = <<>>
  /\ runs = <<>>
  /\ faults = 0
  /\ passCount = 0

NextStatus ==
  \E p \in Slots :
    \/ Redrive(p)
    \/ initializeGithubIssue(p)
    \/ classifyMessage(p)

SpecStatus == InitStatus /\ [][NextStatus]_vars

\* The label webhook handling one event, and the run it submits.
SpecWebhook == InitWebhook /\ [][NextWebhook]_vars

\* ------------------------------------------------------ the OAuth callback
\* The values a query parameter or a cookie may carry besides being absent;
\* the empty string is a value the request can carry and JavaScript treats
\* as false.
StateValues == {"", "s1", "s2"}

\* JavaScript truthiness of an optional string.
Truthy(x) == x \notin {"none", ""}

\* The state check of GET: `storedState && state !== storedState`.
StateRejected(storedState, state) ==
  Truthy(storedState) /\ state # storedState

\* What the token endpoint may answer: a token, a token without a token
\* type, a non-2xx response, a body with an `error` field, or no answer at
\* all (fetch throws).
TokenOutcomes == {"token", "token_no_type", "not_ok", "error_body", "throws"}

Requests ==
  [error : {"none", "access_denied"}, code : {"none", "", "c1"},
   state : {"none"} \cup StateValues,
   installationId : {"none", "i1"},
   storedState : {"none"} \cup StateValues, configured : BOOLEAN]

Redirected(target) ==
  cb' = [cb EXCEPT !.pc = "done", !.redirect = target]

CallbackUnchanged ==
  UNCHANGED <<conv, localMode, concurrent, wh, pc, passNo, st, loc, result,
              issues, comments, runs, nextId, faults, passCount>>

\* GET up to the token exchange: the parameter, state and configuration
\* checks, in the order of the code.
GET ==
  /\ cb.pc = "received"
  /\ LET r == cb.request IN
       IF Truthy(r.error) THEN Redirected("/?error=" \o r.error)
       ELSE IF ~Truthy(r.code) THEN Redirected("/?error=missing_code_parameter")
       ELSE IF StateRejected(r.storedState, r.state)
         THEN Redirected("/?error=invalid_state")
       ELSE IF ~r.configured THEN Redirected("/?error=configuration_missing")
       ELSE cb' = [cb EXCEPT !.pc = "exchange"]
  /\ CallbackUnchanged

\* GET from the token exchange on: the code is posted to the token
\* endpoint, and on a token the state cookie is cleared and the token
\* cookies are set on the redirect to /chat.
tokenExchange ==
  /\ cb.pc = "exchange"
  /\ \E outcome \in TokenOutcomes :
       LET sent == [cb EXCEPT !.exchanged = TRUE, !.pc = "done"] IN
         cb' =
           CASE outcome = "throws" ->
                  [sent EXCEPT !.redirect = "/?error=callback_failed"]
             [] outcome = "not_ok" ->
                  [sent EXCEPT !.redirect = "/?error=token_exchange_failed"]
             [] outcome = "error_body" ->
                  [sent EXCEPT !.redirect = "/?error=bad_verification_code"]
             [] OTHER ->
                  [sent EXCEPT
                     !.redirect = "/chat",
                     !.cookies =
                       {"GITHUB_AUTH_STATE_COOKIE", "GITHUB_TOKEN_COOKIE",
                        "GITHUB_TOKEN_TYPE_COOKIE"}
                       \cup (IF Truthy(cb.request.installationId)
                               THEN {"GITHUB_INSTALLATION_ID_COOKIE"}
                               ELSE {})]
  /\ CallbackUnchanged

\* The manager and the webhook handler are at rest while a callback request
\* is handled.
InitCallback ==
  /\ \E r \in Requests : cb = [NoCallback EXCEPT !.request = r, !.pc = "received"]
  /\ conv = EmptyConv
  /\ localMode = FALSE
  /\ concurrent = FALSE
  /\ wh = NoWebhook
  /\ pc = [p \in Slots |-> "idle"]
  /\ passNo = [p \in Slots |-> 0]
  /\ st = [p \in Slots |-> EmptyConv]
  /\ loc = [p \in Slots |-> NoLocals]
  /\ result = <<>>
  /\ issues = <<>>
  /\ comments = <<>>
  /\ runs = <<>>
  /\ nextId = 0
  /\ faults = 0
  /\ passCount = 0

NextCallback == GET \/ tokenExchange

SpecCallback == InitCallback /\ [][NextCallback]_vars

\* ================================================================= claims
\* The pass slot p runs.
Pass(p) == passNo[p]

\* Ticket comments the tracker holds for the message with the given id.
CommentsFor(cs, id) == Cardinality({i \in DOMAIN cs : cs[i].msg = id})

\* Requests of the given kind that pass n sent to the run-execution service
\* on the planner graph.
PlannerRequests(n, kind) ==
  {i \in DOMAIN runs :
     runs[i].pass = n /\ runs[i].graphId = "planner" /\ runs[i].kind = kind}

\* A message carries a mirror tag.
Tagged(m) == m.kw.githubIssueId # 0 \/ m.kw.githubIssueCommentId # 0

TaggedHumans(msgs) ==
  {msgs[i].id : i \in {j \in DOMAIN msgs :
                         isHumanMessage(msgs[j]) /\ Tagged(msgs[j])}}

\* C1 - Idempotent mirroring: a human message that carries a mirror tag is
\* never among the messages a pass issues createIssueComment for, and no
\* step of any pass adds a ticket comment for it, however many passes run.
C1_IdempotentMirroring ==
  [][/\ \A id \in TaggedHumans(conv.messages) :
          CommentsFor(comments', id) = CommentsFor(comments, id)
     /\ \A p \in Slots :
          pc'[p] = "mirroring" =>
            loc'[p].pending \cap TaggedHumans(st'[p].messages) = {}]_vars

\* C1 witness: a pass is mirroring while the conversation holds a message
\* that an earlier pass mirrored as a comment and tagged.
C1_Witness ==
  \E p \in Slots, i \in DOMAIN comments :
    /\ pc[p] = "mirroring"
    /\ comments[i].pass < Pass(p)
    /\ comments[i].msg \in TaggedHumans(st[p].messages)
    /\ loc[p].pending = {}
    /\ Len(loc[p].newMessages) > 1

\* C2 - Re-driving after a failed mirror pass is safe: a message whose
\* comment was created in a pass that failed on a comment-creation call gets
\* no second comment from a later pass.
C2_RedriveSafe ==
  \A i, j \in DOMAIN comments :
    (/\ comments[i].msg = comments[j].msg
     /\ comments[i].pass < comments[j].pass)
      => result[comments[i].pass] # "Failed to create issue comment"

\* C3 - Two overlapping passes of one conversation, none of whose calls
\* fails, leave no human message with more than one ticket comment.
C3_RaceSafe ==
  faults = 0 =>
    \A i \in DOMAIN comments : CommentsFor(comments, comments[i].msg) <= 1

\* C4 - githubIssueId is set at most once: once set, no step of any pass
\* changes it.
C4_IssueIdSetOnce ==
  [][conv.githubIssueId # 0 => conv'.githubIssueId = conv.githubIssueId]_vars

\* C4 witness: the ticket classifyMessage created in an earlier pass is still
\* the conversation's ticket after a later pass went through ticket
\* handling and ended.
C4_Witness ==
  \E p \in Slots :
    /\ pc[p] = "END"
    /\ loc[p].route \in {"start_planner", "update_planner"}
    /\ conv.githubIssueId # 0
    /\ issues[conv.githubIssueId].by = "classifyMessage"
    /\ issues[conv.githubIssueId].pass < Pass(p)

\* C5 - Session identity stability: once plannerSession.threadId exists, no
\* start and no resume changes it, and every request a pass sends for the
\* planner goes to that thread.
C5_ThreadIdStable ==
  [][conv.plannerSession.threadId # 0 =>
       /\ conv'.plannerSession.threadId = conv.plannerSession.threadId
       /\ \A i \in DOMAIN runs' \ DOMAIN runs :
            runs'[i].graphId = "planner" =>
              runs'[i].threadId = conv.plannerSession.threadId]_vars

\* C5 witness: the planner thread was started in one pass, resumed or
\* started again in a later one, and the session's runId is the later run.
C5_Witness ==
  \E i, j \in DOMAIN runs :
    /\ runs[i].graphId = "planner" /\ runs[j].graphId = "planner"
    /\ runs[i].pass < runs[j].pass
    /\ runs[i].kind = "create"
    /\ runs[j].threadId = runs[i].threadId
    /\ conv.plannerSession = [threadId |-> runs[i].threadId, runId |-> j]

\* C6 - A pass whose route is start_planner or start_planner_for_followup
\* and that does not fail has submitted a planner run.
C6_StartRouteStartsPlanner ==
  \A p \in Slots :
    (/\ pc[p] = "END"
     /\ loc[p].route \in {"start_planner", "start_planner_for_followup"})
      => PlannerRequests(Pass(p), "create") # {}

C8_UpdateRoutesSendNothing ==
  \A p \in Slots :
    loc[p].route \in {"update_planner", "update_programmer"}
      => {i \in DOMAIN runs : runs[i].pass = Pass(p)} = {}

OnlyAIAppended(before, after) ==
  /\ Len(after) >= Len(before)
  /\ SubSeq(after, 1, Len(before)) = before
  /\ \A i \in (Len(before) + 1)..Len(after) : after[i].type = "ai"

\* C10 - Fork isolation: the steps of a create_new_issue pass (the return of
\* classifyMessage, then createNewSession) leave the parent's githubIssueId,
\* plannerSession and task plan as they are, append assistant messages only,
\* and create no comment and no ticket for the parent.
C10_ForkIsolation ==
  [][\A p \in Slots :
       (/\ pc[p] \in {"router-model", "create-new-session"}
        /\ loc'[p].route = "create_new_issue")
         => /\ conv'.githubIssueId = conv.githubIssueId
            /\ conv'.plannerSession = conv.plannerSession
            /\ conv'.taskPlan = conv.taskPlan
            /\ OnlyAIAppended(conv.messages, conv'.messages)
            /\ comments' = comments
            /\ \A i \in DOMAIN issues' \ DOMAIN issues :
                 issues'[i].by = "createNewSession"]_vars

\* C10 witness: a conversation that has a ticket and a planner session
\* forked: the fork's ticket and manager run exist and the pass ended.
C10_Witness ==
  \E p \in Slots, i \in DOMAIN issues, r \in DOMAIN runs :
    /\ pc[p] = "END"
    /\ loc[p].route = "create_new_issue"
    /\ conv.githubIssueId # 0 /\ conv.githubIssueId # i
    /\ conv.plannerSession.threadId # 0
    /\ issues[i].by = "createNewSession" /\ issues[i].pass = Pass(p)
    /\ runs[r].graphId = "manager" /\ runs[r].pass = Pass(p)
    /\ runs[r].threadId # conv.plannerSession.threadId

\* The runs createNewSession submitted on the manager graph.
ForkRuns ==
  {r \in DOMAIN runs : runs[r].graphId = "manager" /\ runs[r].pass > 0}

\* C11 - A fork is created with exactly one new ticket, a thread id no other
\* request and no session of the parent uses, the parent's target
\* repository, an initial human message tagged with the new ticket (so that
\* nothing of it is left to mirror), and a run that goes to start-planner.
C11_ForkCreated ==
  \A r \in ForkRuns :
    LET run == runs[r]
        tickets == {i \in DOMAIN issues :
                      /\ issues[i].by = "createNewSession"
                      /\ issues[i].pass = run.pass}
    IN /\ tickets = {run.input.githubIssueId}
       /\ run.input.githubIssueId # conv.githubIssueId
       /\ run.threadId # 0
       /\ run.threadId # conv.plannerSession.threadId
       /\ \A q \in DOMAIN runs \ {r} : runs[q].threadId # run.threadId
       /\ run.input.targetRepository = conv.targetRepository
       /\ conv.targetRepository # "none"
       /\ Humans(run.input.messages) # <<>>
       /\ \A i \in DOMAIN run.input.messages :
            isHumanMessage(run.input.messages[i]) =>
              run.input.messages[i].kw.githubIssueId = run.input.githubIssueId
       /\ messagesNotInIssue(run.input.messages) = <<>>
       /\ run.kind = "create" /\ run.goto = "start-planner"

\* C11 witness: a conversation without a ticket of its own forked, after a
\* pass of it had started a planner in local mode.
C11_Witness ==
  \E r \in ForkRuns :
    /\ conv.githubIssueId = 0
    /\ conv.plannerSession.threadId # 0
    /\ runs[r].input.githubIssueId = Len(issues)
    /\ \A p \in Slots : pc[p] \in {"idle", "END"}

\* The message with the given id is in msgs and carries the given comment id.
TaggedWith(msgs, id, commentId) ==
  \E i \in DOMAIN msgs :
    /\ msgs[i].id = id
    /\ msgs[i].kw.githubIssueCommentId = commentId

\* C12 - When submitting the planner run or the resume signal fails, the
\* pass fails and what the pass recorded before is in the conversation
\* state: the assistant's reply, the ticket id of a ticket it created, and
\* the mirror tag of every comment it created.
C12_FailureKeepsRecords ==
  \A p \in Slots :
    (/\ pc[p] = "failed"
     /\ result[Pass(p)] = "runs.create failed"
     /\ loc[p].route # "create_new_issue")
      => /\ \E i \in DOMAIN conv.messages :
              conv.messages[i] = loc[p].newMessages[1]
         /\ \A i \in DOMAIN issues :
              issues[i].pass = Pass(p) => conv.githubIssueId = i
         /\ \A i \in DOMAIN comments :
              comments[i].pass = Pass(p) =>
                TaggedWith(conv.messages, comments[i].msg, i)

\* C13 - A reply without a tool call, or with a route outside the
\* enumeration, makes the pass fail, and the pass has created no ticket, no
\* ticket comment and no session.
C13_BadReplyAborts ==
  \A p \in Slots :
    loc[p].route \in ModelReplies \ Routes
      => /\ pc[p] \in {"END", "failed"} => pc[p] = "failed"
         /\ \A i \in DOMAIN issues : issues[i].pass # Pass(p)
         /\ \A i \in DOMAIN comments : comments[i].pass # Pass(p)
         /\ \A i \in DOMAIN runs : runs[i].pass # Pass(p)

\* C14 - classifyMessage on a state without a human message fails at once:
\* the step throws "No human message found." and sends no prompt, creates
\* no ticket, no comment and no run, consumes no external call and stores
\* no update.
C14_NoHumanFailsFirst ==
  [][\A p \in Slots :
       (pc[p] = "classify-message" /\ Humans(st[p].messages) = <<>>)
         => /\ pc'[p] = "failed"
            /\ result'[Pass(p)] = "No human message found."
            /\ UNCHANGED <<conv, st, loc, issues, comments, runs, faults,
                           nextId>>]_vars

\* C14 witness: a pass without a human message (local mode, nothing in the
\* run input) failed in classifyMessage.
C14_Witness ==
  \E p \in Slots :
    /\ pc[p] = "failed"
    /\ result[Pass(p)] = "No human message found."
    /\ Humans(conv.messages) = <<>>
    /\ ~loc[p].prompt.sent

\* C15: a label event whose sender is not on the allow-list leaves the
\* ticket without any comment of the handler and creates no run, whatever
\* external call fails.
C15_UnauthorizedInert ==
  (wh.event.name = "issues.labeled" /\ ~wh.event.allowed)
    => (wh.posted = <<>> /\ runs = <<>>)

\* A delivery that reaches the issues.labeled handler.
LabelEvent ==
  wh.event.parsed /\ wh.event.headers /\ wh.event.name = "issues.labeled"

\* C16 as stated: a label event whose label is missing or unrecognized
\* fetches no credential, creates no run, posts no comment, and is answered
\* with success.
C16_DroppedSilently ==
  (LabelEvent /\ wh.event.label \notin validOpenSWELabels)
    => /\ wh.credentials = 0 /\ runs = <<>> /\ wh.posted = <<>>
       /\ wh.pc = "done" => wh.response = "received"

\* C16 amended: such an event fetches no credential, creates no run and
\* posts no comment; it is answered with success when
\* SECRETS_ENCRYPTION_KEY is set, and with "Webhook processing failed" when
\* it is not, because the handler checks the key before it looks at the
\* label.
C16_DroppedWhenConfigured ==
  (LabelEvent /\ wh.event.label \notin validOpenSWELabels)
    => /\ wh.credentials = 0 /\ runs = <<>> /\ wh.posted = <<>>
       /\ wh.pc = "done" =>
            wh.response = IF wh.event.keySet THEN "received"
                          ELSE "Webhook processing failed"

C16_Witness ==
  /\ LabelEvent /\ wh.event.label = "other" /\ wh.event.keySet
  /\ wh.event.installation /\ wh.event.issue /\ wh.event.allowed
  /\ wh.pc = "done" /\ wh.response = "received"

\* The runs the webhook handler submitted.
WebhookRuns ==
  {r \in DOMAIN runs : runs[r].graphId = "manager" /\ runs[r].pass = 0}

\* C17: the run submitted for a label has autoAcceptPlan exactly for the two
\* auto-accept labels and names the escalated model for planner and
\* programmer exactly for the two max labels.
C17_LabelParameters ==
  \A r \in WebhookRuns :
     /\ wh.event.label \in
          {"standard", "standard-auto-accept", "max", "max-auto-accept"}
     /\ runs[r].input.autoAcceptPlan
          <=> wh.event.label \in {"standard-auto-accept", "max-auto-accept"}
     /\ IF wh.event.label \in {"max", "max-auto-accept"}
        THEN /\ runs[r].config.plannerModelName = "anthropic:claude-opus-4-1"
             /\ runs[r].config.programmerModelName
                  = "anthropic:claude-opus-4-1"
        ELSE runs[r].config = NoConfig

C17_Witness ==
  \E r \in WebhookRuns :
     /\ wh.event.label = "standard-auto-accept"
     /\ runs[r].input.autoAcceptPlan
     /\ runs[r].config = NoConfig

\* The pass run for the webhook's request holds the planner, or has started
\* it.
WebhookPlannerEntered ==
  \/ \E p \in Slots : pc[p] = "start-planner"
  \/ PlannerRequests(1, "create") # {}

Posted(kind) == {i \in DOMAIN wh.posted : wh.posted[i].kind = kind}

\* C19: for an authorized event with a recognized label the comment that
\* announces the run is posted at most once, only when the run was created,
\* names that run's id and the thread it was created on, and is there when
\* the handler has finished after a successful post.
C19_AckOnceAfterRun ==
  /\ Cardinality(Posted("triggered")) <= 1
  /\ \A i \in Posted("triggered") :
       /\ wh.event.allowed /\ wh.event.label \in validOpenSWELabels
       /\ wh.posted[i].body.runId \in WebhookRuns
       /\ wh.posted[i].body.threadId
            = runs[wh.posted[i].body.runId].threadId
       /\ wh.posted[i].body.threadId # 0
  /\ (wh.pc = "done" /\ WebhookRuns # {} /\ wh.faults = 0)
       => Cardinality(Posted("triggered")) = 1

C19_Witness ==
  /\ wh.pc = "done" /\ wh.event.allowed
  /\ Cardinality(Posted("triggered")) = 1
  /\ WebhookRuns # {}

\* The event reached the handler's try block: a label event with the key
\* set, a recognized label and an issue.
Dispatching ==
  /\ LabelEvent /\ wh.event.keySet
  /\ wh.event.label \in validOpenSWELabels /\ wh.event.issue

\* C20: when a step of dispatching a recognized-label event fails, the
\* handler tries at most once to post an error comment, a failure of that
\* attempt is swallowed, and the handler completes normally.
C20_FailureContained ==
  /\ wh.errorAttempts <= 1
  /\ Cardinality(Posted("error")) <= wh.errorAttempts
  /\ wh.faults = 0 => wh.errorAttempts = 0
  /\ (Dispatching /\ wh.pc = "done") => wh.response = "received"

C20_Witness ==
  /\ Dispatching /\ wh.pc = "done" /\ wh.response = "received"
  /\ wh.faults = 2 /\ wh.errorAttempts = 1 /\ Posted("error") = {}

\* The planner runs submitted so far, of either kind.
PlannerRuns == {i \in DOMAIN runs : runs[i].graphId = "planner"}

\* C21: start_planner submissions of one conversation never produce a
\* second session: every planner run requested while another one was
\* requested before is submitted on the same threadId.
C21_OnePlannerThread ==
  \A i, j \in PlannerRuns : runs[i].threadId = runs[j].threadId

\* The plan a pass takes when the ticket body it read holds `bodyPlan` and
\* the state holds `statePlan`.
TicketPlanFirst(bodyPlan, statePlan) ==
  IF bodyPlan # 0 THEN bodyPlan ELSE statePlan

\* C22: in a pass of a conversation that has a ticket, the plan the pass
\* stores, the plan it gives to the classifier and the plan of the planner
\* run it submits are the plan of the ticket body whenever the body holds
\* one, and the plan of the state only when the body holds none.
C22_TicketPlanFirst ==
  [][\A p \in Slots :
       /\ (/\ pc[p] = "initialize-github-issue"
           /\ pc'[p] = "classify-message"
           /\ ~localMode /\ st[p].githubIssueId # 0)
            => st'[p].taskPlan
                 = TicketPlanFirst(loc'[p].issueBodyPlan, st[p].taskPlan)
       /\ (/\ pc[p] = "classify-message" /\ pc'[p] = "router-model"
           /\ st[p].githubIssueId # 0)
            => loc'[p].prompt.taskPlan
                 = TicketPlanFirst(loc'[p].issueBodyPlan, st[p].taskPlan)
       /\ (/\ pc[p] \in {"classify-message", "router-model", "mirroring",
                         "start-planner"}
           /\ passNo'[p] = passNo[p])
            => st'[p].taskPlan = st[p].taskPlan
       /\ (pc[p] = "start-planner" /\ pc'[p] = "END")
            => \A i \in DOMAIN runs' \ DOMAIN runs :
                 runs'[i].input.taskPlan = st[p].taskPlan]_vars

\* C22 witness: an earlier pass sent the planner plan 1; the ticket body
\* was edited, and the second pass, having read plan 2 from it, holds
\* plan 2.
C22_Witness ==
  /\ passNo[1] = 2 /\ pc[1] = "classify-message"
  /\ \E i \in PlannerRuns : runs[i].pass = 1 /\ runs[i].input.taskPlan = 1
  /\ loc[1].issueBodyPlan = 2 /\ st[1].taskPlan = 2

\* C23: when the state records a ticket and getIssue does not return it,
\* initializeGithubIssue throws "Issue not found" and stores nothing: the
\* conversation is as before, and the pass runs no later step (no ticket,
\* comment or run carries its number).
C23_MissingTicketAborts ==
  /\ [][\A p \in Slots :
          (pc[p] = "initialize-github-issue" /\ faults' > faults)
            => /\ st[p].githubIssueId # 0
               /\ pc'[p] = "failed"
               /\ result'[passNo[p]] = "Issue not found"
               /\ conv' = conv /\ st'[p] = st[p]
               /\ issues' = issues /\ comments' = comments
               /\ runs' = runs]_vars
  /\ [](\A n \in DOMAIN result :
          result[n] = "Issue not found"
            => /\ \A i \in DOMAIN issues : issues[i].pass # n
               /\ \A i \in DOMAIN comments : comments[i].pass # n
               /\ \A i \in DOMAIN runs : runs[i].pass # n
               /\ \A p \in Slots : passNo[p] = n => pc[p] = "failed")

\* C23 witness: a pass of a conversation with a ticket and a human message
\* ended in "Issue not found".
C23_Witness ==
  /\ pc[1] = "failed" /\ result[passNo[1]] = "Issue not found"
  /\ conv.githubIssueId # 0 /\ FindLastHuman(conv.messages) # 0

\* The human messages of a state that carry no mirror tag.
UntaggedHumans(msgs) ==
  {msgs[i].id : i \in {j \in DOMAIN msgs :
                         isHumanMessage(msgs[j]) /\ ~Tagged(msgs[j])}}

\* C24: when a pass outside local mode has ended without failing and its
\* route is neither no_op nor create_new_issue, the resulting state holds no
\* human message without a mirror tag.
C24_AllMirrored ==
  \A p \in Slots :
    (/\ pc[p] = "END" /\ ~localMode
     /\ loc[p].route \notin {"none", "no_op", "create_new_issue"})
      => UntaggedHumans(st[p].messages) = {}

\* What C25 says of the planner run a step submits: a user message is in it
\* only for route start_planner_for_followup, and for route start_planner
\* it holds the state's ticket id, repository and task plan and no message.
PlannerInputFits(p, run) ==
  /\ run.input.messages # <<>>
       => loc[p].route = "start_planner_for_followup"
  /\ loc[p].route = "start_planner"
       => /\ run.input.messages = <<>>
          /\ run.input.githubIssueId = st[p].githubIssueId
          /\ run.input.targetRepository = st[p].targetRepository
          /\ run.input.taskPlan = st[p].taskPlan

C26_LocalNoTracker ==
  localMode => (issues = <<>> /\ comments = <<>>)

\* C27: the programmer status given to the classifier is not_started
\* whenever the conversation has no planner thread id or the planner
\* thread's state names no programmer session, whatever the conversation's
\* own programmerSession holds.
C27_ProgrammerViaPlanner ==
  \A p \in Slots :
    (/\ pc[p] = "router-model"
     /\ st[p].plannerSession.threadId = 0 \/ ~loc[p].programmerFound)
      => loc[p].prompt.programmerStatus = "not_started"

\* C27 witness: the conversation records a programmer session of its own
\* and a planner session whose thread names none; the classifier is told
\* not_started.
C27_Witness ==
  /\ pc[1] = "router-model" /\ loc[1].prompt.sent
  /\ st[1].programmerSession # NoSession
  /\ st[1].plannerSession.threadId # 0 /\ ~localMode
  /\ ~loc[1].programmerFound
  /\ loc[1].prompt.programmerStatus = "not_started"

\* The first pass of a conversation that started without ticket and
\* sessions has ended, outside local mode, with route start_planner.
FirstRequestDone ==
  /\ ~localMode /\ passCount = 1 /\ pc[1] = "END"
  /\ loc[1].route = "start_planner"
  /\ \A i \in DOMAIN issues : issues[i].by # "external"

\* C28: the first request of a conversation, routed start_planner, creates
\* exactly one ticket N and no comment, leaves the human message as a copy
\* tagged with N, submits exactly one planner run, on a new thread, and
\* ends with githubIssueId = N and plannerSession naming that thread and
\* run.
C28_FirstRequest ==
  FirstRequestDone =>
    /\ Len(issues) = 1 /\ issues[1].by = "classifyMessage"
    /\ comments = <<>>
    /\ conv.githubIssueId = 1
    /\ Len(Humans(conv.messages)) = 1
    /\ Humans(conv.messages)[1].id = 1
    /\ Humans(conv.messages)[1].kw.githubIssueId = 1
    /\ Humans(conv.messages)[1].kw.isOriginalIssue
    /\ Len(runs) = 1
    /\ runs[1].graphId = "planner" /\ runs[1].kind = "create"
    /\ runs[1].threadId \notin {conv.messages[i].id : i \in DOMAIN conv.messages}
    /\ runs[1].threadId # 0
    /\ runs[1].input.githubIssueId = 1
    /\ conv.plannerSession = [threadId |-> runs[1].threadId, runId |-> 1]

C28_Witness ==
  FirstRequestDone /\ conv.plannerSession.threadId # 0 /\ Len(issues) = 1

\* The requests of either graph a pass submitted.
RunsOfPass(rs, n) == {i \in DOMAIN rs : rs[i].pass = n}

\* The ticket comments a pass created.
CommentsOfPass(cs, n) == {i \in DOMAIN cs : cs[i].pass = n}

\* C29: a pass of a conversation with a ticket, an interrupted planner and
\* a new untagged human message that ends with route
\* resume_and_update_planner has created one comment per untagged message
\* on the existing ticket, has sent exactly one request for the planner, a
\* resume on the existing planner thread, and returns plannerSession with
\* that threadId and the new run's id.  A pass that starts with a new
\* message in a conversation that has a planner session holds more than one
\* human message (first part); for such passes the scenario holds (second
\* part).
C29_ResumeScenario ==
  [][/\ \A p \in Slots :
          (/\ passNo'[p] # passNo[p]
           /\ Len(conv'.messages) > Len(conv.messages)
           /\ conv.plannerSession.threadId # 0)
            => /\ Len(Humans(st'[p].messages)) > 1
               /\ UntaggedHumans(st'[p].messages) # {}
     /\ \A p \in Slots :
       (/\ pc[p] \in {"router-model", "mirroring"} /\ pc'[p] = "END"
        /\ ~localMode
        /\ loc'[p].route = "resume_and_update_planner"
        /\ loc'[p].plannerStatus = "interrupted"
        /\ st[p].githubIssueId # 0
        /\ Len(Humans(st[p].messages)) > 1
        /\ UntaggedHumans(st[p].messages) # {})
         => /\ issues' = issues
            /\ \A m \in UntaggedHumans(st[p].messages) :
                 Cardinality({i \in CommentsOfPass(comments', passNo[p]) :
                                /\ comments'[i].msg = m
                                /\ comments'[i].issue = st[p].githubIssueId})
                   = 1
            /\ Cardinality(CommentsOfPass(comments', passNo[p]))
                 = Cardinality(UntaggedHumans(st[p].messages))
            /\ UntaggedHumans(st'[p].messages) = {}
            /\ RunsOfPass(runs', passNo[p]) = {Len(runs')}
            /\ Len(runs') = Len(runs) + 1
            /\ runs'[Len(runs')].graphId = "planner"
            /\ runs'[Len(runs')].kind = "resume"
            /\ runs'[Len(runs')].threadId = st[p].plannerSession.threadId
            /\ st'[p].plannerSession
                 = [threadId |-> st[p].plannerSession.threadId,
                    runId |-> Len(runs')]
            /\ conv'.plannerSession = st'[p].plannerSession]_vars

\* C29 witness: such a pass has ended; its one comment and its resume
\* request are there.
C29_Witness ==
  /\ ~localMode /\ pc[1] = "END"
  /\ loc[1].route = "resume_and_update_planner"
  /\ loc[1].plannerStatus = "interrupted"
  /\ Cardinality(CommentsOfPass(comments, passNo[1])) = 1
  /\ \E i \in RunsOfPass(runs, passNo[1]) :
       /\ runs[i].kind = "resume"
       /\ conv.plannerSession.runId = i
       /\ \E j \in PlannerRuns : j < i /\ runs[j].threadId = runs[i].threadId

\* The token cookies of a successful callback.
TokenCookies == {"GITHUB_TOKEN_COOKIE", "GITHUB_TOKEN_TYPE_COOKIE"}

\* C30: the authorization code is exchanged and the token cookies are set
\* only if the request carries a stored state and its state parameter equals
\* it; a request with a missing or non-matching stored state never reaches
\* the token exchange.
C30_StateValidatedFirst ==
  (cb.exchanged \/ cb.cookies \cap TokenCookies # {}) =>
    /\ Truthy(cb.request.storedState)
    /\ cb.request.state = cb.request.storedState

\* The tickets a pass created.
IssuesOfPass(is, n) == {i \in DOMAIN is : is[i].pass = n}

KeepsMetadata(before, after) ==
  /\ after.id = before.id
  /\ after.content = before.content
  /\ before.kw.requestSource # "none"
       => after.kw.requestSource = before.kw.requestSource
  /\ before.kw.githubIssueId # 0
       => after.kw.githubIssueId = before.kw.githubIssueId
  /\ before.kw.githubIssueCommentId # 0
       => after.kw.githubIssueCommentId = before.kw.githubIssueCommentId
  /\ before.kw.isOriginalIssue => after.kw.isOriginalIssue
  /\ before.kw.isFollowup => after.kw.isFollowup

\* C32: a human message that an update replaces by its tagged copy keeps
\* its id, its content and all of its metadata (requestSource included);
\* the copy only adds the ticket id, the comment id and the flags, and the
\* original is retracted in the same update (no id is held twice).
C32_ExactCopy ==
  [][/\ \A i \in DOMAIN conv.messages, j \in DOMAIN conv'.messages :
          (isHumanMessage(conv.messages[i])
           /\ conv'.messages[j].id = conv.messages[i].id)
          => KeepsMetadata(conv.messages[i], conv'.messages[j])
     /\ \A j, k \in DOMAIN conv'.messages :
          conv'.messages[j].id = conv'.messages[k].id => j = k]_vars

\* Slot p takes the step of initializeGithubIssue on a state that holds a
\* human message.
InitializesWithHuman(p) ==
  /\ pc[p] = "initialize-github-issue"
  /\ pc'[p] # "initialize-github-issue"
  /\ FindLastHuman(st[p].messages) # 0

MessageIds(msgs) == {msgs[i].id : i \in DOMAIN msgs}

\* C34: a human message materialized from the ticket carries the ticket's
\* id from creation and is never mirrored back as a comment.  Every message
\* initializeGithubIssue adds is a human message tagged with the state's
\* ticket and marked as the original issue; the message of the label
\* webhook's run input is tagged with the conversation's ticket; and every
\* comment that is created is created for a message that, in the state the
\* pass works on, is untagged and not marked as the original issue.
C34_TicketMessageNotMirrored ==
  /\ [][\A p \in Slots :
          pc[p] = "initialize-github-issue"
          => \A j \in DOMAIN conv'.messages :
               conv'.messages[j].id \notin MessageIds(conv.messages)
               => /\ isHumanMessage(conv'.messages[j])
                  /\ st[p].githubIssueId # 0
                  /\ conv'.messages[j].kw.githubIssueId = st[p].githubIssueId
                  /\ conv'.messages[j].kw.isOriginalIssue]_vars
  /\ [](\A i \in DOMAIN conv.messages :
          conv.messages[i].kw.requestSource = "github_issue_webhook"
          => /\ conv.messages[i].kw.githubIssueId = conv.githubIssueId
             /\ conv.messages[i].kw.githubIssueId # 0
             /\ conv.messages[i].kw.githubIssueCommentId = 0)
  /\ [][Len(comments') > Len(comments)
        => \A p \in Slots :
             passNo[p] = comments'[Len(comments')].pass
             => LET m == MessageById(st[p].messages,
                                     comments'[Len(comments')].msg)
                IN /\ m.kw.githubIssueId = 0
                   /\ ~m.kw.isOriginalIssue
                   /\ m.kw.requestSource # "github_issue_webhook"]_vars

\* A comment was created in a conversation whose ticket existed before it
\* and whose first message was materialized from that ticket; that message
\* still has no comment id.
C34_Witness ==
  /\ Len(comments) > 0
  /\ conv.githubIssueId # 0
  /\ issues[conv.githubIssueId].by = "external"
  /\ Len(conv.messages) > 0
  /\ \E i \in DOMAIN conv.messages :
       /\ conv.messages[i].kw.isOriginalIssue
       /\ conv.messages[i].kw.requestSource = "none"
       /\ conv.messages[i].kw.githubIssueId = conv.githubIssueId
       /\ conv.messages[i].kw.githubIssueCommentId = 0

\* The requests a pass sent for the planner graph.
PlannerRunsOfPass(n) == {i \in PlannerRuns : runs[i].pass = n}

\* C35: a pass sends at most one request to the planner thread; it never
\* both resumes the planner and submits a fresh planner run.
C35_OnePlannerRequest ==
  \A n \in 1..passCount : Cardinality(PlannerRunsOfPass(n)) <= 1

\* C36: for one label event an error comment is posted on the ticket only
\* if no run was created for the event; a started session and an error
\* comment never both result from it.
C36_ErrorOnlyWithoutRun ==
  Posted("error") # {} => WebhookRuns = {}

\* The positions of update u that retract the message with the given id.
RetractionsOf(u, id) ==
  {k \in DOMAIN u : u[k].type = "remove" /\ u[k].id = id}

\* Update u holds, for message m, exactly one retraction, immediately
\* followed by the only copy of m, and the copy carries the id of the
\* comment pass n created for m on the ticket.
MirroredInUpdate(u, m, n, issueId) ==
  /\ Cardinality(RetractionsOf(u, m.id)) = 1
  /\ Cardinality({k \in DOMAIN u : isHumanMessage(u[k]) /\ u[k].id = m.id}) = 1
  /\ \A k \in RetractionsOf(u, m.id) :
       /\ k + 1 \in DOMAIN u
       /\ isHumanMessage(u[k + 1])
       /\ u[k + 1].id = m.id
       /\ u[k + 1].content = m.content
       /\ u[k + 1].kw.githubIssueId = issueId
       /\ u[k + 1].kw.githubIssueCommentId \in DOMAIN comments
       /\ comments[u[k + 1].kw.githubIssueCommentId] =
            [issue |-> issueId, msg |-> m.id, pass |-> n]
       /\ Cardinality({c \in CommentsOfPass(comments, n) :
                         comments[c].msg = m.id}) = 1

\* C37: whatever the order in which the comment-creation calls complete,
\* the update the mirroring branch returns starts with the classifier's
\* reply and holds, for each unmirrored human message of the pass's state
\* and for nothing else, one retraction immediately followed by the
\* message's copy tagged with its own comment; the messages that are tagged
\* afterwards are all the human messages of that state, whatever the order.
C37_AnyCompletionOrder ==
  [][\A p \in Slots :
       (pc[p] = "mirroring" /\ pc'[p] \in {"END", "start-planner"})
       => LET u == loc[p].newMessages
              todo == messagesNotInIssue(st[p].messages)
          IN /\ u[1].type = "ai"
             /\ Len(u) = 1 + 2 * Len(todo)
             /\ \A i \in DOMAIN todo :
                  MirroredInUpdate(u, todo[i], passNo[p], st[p].githubIssueId)
             /\ UntaggedHumans(conv'.messages) = {}
             /\ MessageIds(Humans(conv'.messages)) =
                  MessageIds(Humans(st[p].messages))]_vars

\* A pass has mirrored two messages whose comments completed in the order
\* opposite to the messages' order.
C37_Witness ==
  \E p \in Slots :
    /\ pc[p] \in {"END", "start-planner"}
    /\ Len(loc[p].newMessages) = 5
    /\ loc[p].newMessages[2].id > loc[p].newMessages[4].id
    /\ Cardinality(CommentsOfPass(comments, passNo[p])) = 2

\* C38: every ticket created by createNewSession gets a session; a manager
\* run was submitted for it, also when the token refresh or the run
\* submission fails.
C38_TicketHasSession ==
  \A i \in DOMAIN issues :
    issues[i].by = "createNewSession"
    => \E r \in DOMAIN runs :
         /\ runs[r].graphId = "manager"
         /\ runs[r].input.githubIssueId = i

\* The routes the last branch of classifyMessage sends to END.
EndRoutes == {"update_programmer", "update_planner", "resume_and_update_planner"}

\* C39: with route update_programmer, update_planner or
\* resume_and_update_planner classifyMessage returns from the
\* comment-mirroring branch; it never gets from the router's reply to END
\* through the final branch, which is the only way to END that does not
\* pass the mirroring branch.
C39_FinalBranchUnreachable ==
  [][\A p \in Slots :
       (pc[p] = "router-model" /\ loc'[p].route \in EndRoutes)
       => pc'[p] # "END"]_vars

\* The errors of the resume branch that guard against a missing planner
\* session and a missing run-service client.
ResumeGuardErrors ==
  {"No planner session found.", "LangGraph client not initialized"}

\* C40: the errors of the resume branch about a missing planner session and
\* a missing run-service client are never raised.  A pass that holds
\* plannerStatus = interrupted works on a state with a planner threadId and
\* does not run in local mode (where no client is created), and no pass
\* ends with one of the two errors.
C40_ResumeGuardsNeverFire ==
  /\ \A p \in Slots :
       loc[p].plannerStatus = "interrupted"
       => ~localMode /\ st[p].plannerSession.threadId # 0
  /\ \A n \in DOMAIN result : result[n] \notin ResumeGuardErrors

\* A pass that found the planner interrupted went through the resume branch
\* and sent the resume.
C40_Witness ==
  \E p \in Slots :
    /\ pc[p] \in {"END", "start-planner"}
    /\ loc[p].plannerStatus = "interrupted"
    /\ loc[p].route \in Routes
    /\ \E r \in RunsOfPass(runs, passNo[p]) :
         /\ runs[r].kind = "resume"
         /\ runs[r].threadId = st[p].plannerSession.threadId

====
